---- MODULE Spec2Model ----
(***************************************************************************)
(* hyper-tls: the HTTPS connector (src/src/client.rs) and the stream       *)
(* bridge between a poll-driven transport and a blocking-style TLS engine  *)
(* (src/src/stream.rs).                                                    *)
(*                                                                         *)
(* One connector, one connection attempt (or one directly driven           *)
(* Handshaking) and the Unified Stream it yields, at the granularity of    *)
(* the calls the code makes: a poll is entered, the engine makes its       *)
(* adapter calls one by one inside the WAKER scope, the scope is left and  *)
(* the poll returns.  The plain connector, the transport and the TLS       *)
(* engine are external: their outcomes are nondeterministic inputs.        *)
(***************************************************************************)
EXTENDS Naturals, Sequences, FiniteSets

\* ---------------------------------------------------------------- bounds
\* I/O steps the engine needs to finish a handshake or a session operation.
MaxSteps == 2
\* Not-ready reports the transport may give during one handshake.
MaxPend == 2

\* ---------------------------------------------------------------- inputs
\* dst.scheme_str(): Some("https"), Some("http"), Some("ws") or None.
Schemes == {"https", "http", "ws", "none"}
\* dst.host(): None, a name, or a bracketed literal address.
NoHost == <<"?">>
Hosts == {NoHost, <<"h">>, <<"[", "h", "]">>}
Targets == [scheme : Schemes, host : Hosts]
\* The handles the caller's polls carry (cx.waker()).
Wakers == {"w1", "w2"}
NoWaker == "unset"
\* Errors of the external collaborators.  A transport that keeps the
\* AsyncRead/AsyncWrite contract reports not-ready as Poll::Pending, never as
\* an error of kind WouldBlock.
TransportErrors == {"ConnectRefused"}
IoErrors == {"BrokenPipe"}
TlsErrors == {"BadCertificate"}
StreamOps == {"read", "write", "flush", "shutdown"}

\* ------------------------------------------------------------ poll values
Pending == [poll |-> "Pending", res |-> "-", val |-> "-"]
ReadyOk(v) == [poll |-> "Ready", res |-> "Ok", val |-> v]
ReadyErr(e) == [poll |-> "Ready", res |-> "Err", val |-> e]
NoRet == [poll |-> "-", res |-> "-", val |-> "-"]

\* Result<_, _> of a synchronous call (engine or adapter).
Ok(v) == [res |-> "Ok", val |-> v]
Err(e) == [res |-> "Err", val |-> e]
WouldBlock == "WouldBlock"

VARIABLES
    force_https,  \* HttpsConnector.force_https
    fut,          \* the HttpsConnecting future: none, err, connecting,
                  \* handshaking, resolved, panicked
    is_https,     \* captured by the async block
    host,         \* captured by the async block
    httpCalls,    \* calls of self.http.call made for this attempt
    hsStarted,    \* handshakes initiated (tls.connect) for this attempt
    hs,           \* the Handshaking: [exists, direct, inner]
    WAKER,        \* the scoped thread-local: NoWaker or a waker
    saved,        \* the values WAKER.set will restore, innermost last
    at,           \* where control is: out, hs_poll, engine, hs_exit, tls_exit
    cx,           \* the waker of the poll in progress
    eng,          \* the engine call in progress: [op, left]
    ret,          \* the value the innermost poll is about to return / returned
    result,       \* what the connect future resolved to
    cnt,          \* per-handshake history: wb, wbPoll, tpolls, tnotready
    hsOut,        \* what the Handshaking's polls returned, in order
    stream,       \* the Unified Stream the caller holds: none, Http, Https
    sop,          \* the stream operation polled last
    req,          \* the arguments of call: dst and the flag it read
    connecting,   \* the plain connector's future: none, pending, ok or its error
    shut,         \* per stream: the transport's shutdown ran, the secure one returned Ok
    adp,          \* the adapter (SyncStream) call made last
    probe,        \* the readiness probe made last
    dropped,      \* where the attempt dropped last was suspended, or "no"
    wake,         \* the attempt's task: due (to be polled), registered (a
                  \* not-ready source holds its waker), lost or none
    st,           \* several streams on one thread: each stream's own state
    stack,        \* the polls in progress on the thread, innermost last
    tp            \* the transport poll an adapter made last

vars == <<force_https, fut, is_https, host, httpCalls, hsStarted, hs, WAKER,
          saved, at, cx, eng, ret, result, cnt, hsOut, stream, sop, req,
          connecting, shut, adp, probe, dropped, wake, st, stack, tp>>

\* ---------------------------------------------------------------- helpers
RECURSIVE TrimStart(_)
TrimStart(s) ==
    IF s # <<>> /\ Head(s) \in {"[", "]"} THEN TrimStart(Tail(s)) ELSE s

RECURSIVE TrimEnd(_)
TrimEnd(s) ==
    IF s # <<>> /\ s[Len(s)] \in {"[", "]"}
    THEN TrimEnd(SubSeq(s, 1, Len(s) - 1))
    ELSE s

\* str::trim_matches(|c| c == '[' || c == ']')
trim_matches(s) == TrimEnd(TrimStart(s))

\* dst.host().unwrap_or("").trim_matches(..).to_owned()
ExtractHost(dst) == trim_matches(IF dst.host = NoHost THEN <<>> ELSE dst.host)

\* Mutant: a prefix test instead of equality.
IsHttps_prefix(dst) == dst.scheme \in {"https", "http"}

\* let is_https = dst.scheme_str() == Some("https");
IsHttps(dst) == dst.scheme = "https"

\* Mutant: the negation of is_https lost.
EarlyAbort_noNeg(https, force) == https /\ force

\* if !is_https && self.force_https { return err(..) }
EarlyAbort(https, force) == ~https /\ force

\* Mutant: the cause replaced by a generic error.
MapErr_generic(e) == "ConnectFailed"

\* connecting.await.map_err(Into::into): the error itself, boxed.
MapErr(e) == e

\* Mutant: the plaintext variant on both branches.
AsyncBlock_wrap_plain(https) == "Http"

\* MaybeHttpsStream::Https(tls) if is_https, MaybeHttpsStream::Http(tcp) if not.
AsyncBlock_wrap(https) == IF https THEN "Https" ELSE "Http"

\* Mutant: a failed handshake falls back to the plaintext stream.
AsyncBlock_finish_fallback(https, r) ==
    IF r.res = "Ok" THEN Ok(AsyncBlock_wrap(https)) ELSE Ok("Http")

\* `tls.connect(..).await?` then Ok(maybe): the output of the async block
\* once the handshake returned Ready(r).
AsyncBlock_finish(https, r) ==
    IF r.res = "Ok" THEN Ok(AsyncBlock_wrap(https)) ELSE Err(r.val)

\* The error the err() future carries.
ForceHttpsButUriNotHttps == "ForceHttpsButUriNotHttps"

\* Handshaking.inner: Option<Result<TlsStream, HandshakeError>>
InnerNone == [tag |-> "None", left |-> 0, err |-> "-"]
InnerOk == [tag |-> "Ok", left |-> 0, err |-> "-"]
InnerWouldBlock(n) == [tag |-> "WouldBlock", left |-> n, err |-> "-"]
InnerFailure(e) == [tag |-> "Failure", left |-> 0, err |-> e]

NoHs == [exists |-> FALSE, direct |-> FALSE, panicked |-> FALSE, inner |-> InnerNone]
NoEng == [op |-> "-", left |-> 0, out |-> Ok("-")]
NoCnt == [wb |-> 0, wbPoll |-> 0, tpolls |-> 0, tnotready |-> 0]
NoSop == [name |-> "-", via |-> "-", invoked |-> {}, tops |-> {}, done |-> FALSE]
NoResult == [res |-> "-", val |-> "-"]
NoReq == [scheme |-> "-", host |-> NoHost, force |-> FALSE]
NoShut == [transport |-> FALSE, secure |-> FALSE]

\* Streams polled on one thread: A and B each over a transport of its own,
\* C a secure stream whose transport is the secure stream B.
Streams == {"A", "B", "C"}
Transport(s) == IF s = "C" THEN "B" ELSE "plain"
NoSt == [phase |-> "new", inner |-> [tag |-> "None", left |-> 0, err |-> "-"],
         verdict |-> Ok("-"), pend |-> 0, notready |-> 0,
         res |-> [res |-> "-", val |-> "-"]]
NoTp == [s |-> "-", used |-> NoWaker, cur |-> NoWaker, polls |-> 0]
Running == [res |-> "-", val |-> "-"]
NoAdp == [fn |-> "-", relay |-> NoWaker, w |-> NoWaker, top |-> "-", polls |-> 0, o |-> NoRet,
          r |-> Ok("-")]
NoProbe == [calls |-> 0, inner |-> NoRet, ret |-> NoRet, force |-> FALSE]

\* What the transport may answer to one non-blocking call.
TransportOutcomes ==
    {Pending, ReadyOk("n")} \cup {ReadyErr(e) : e \in IoErrors}

\* What the plain connector's future may answer to one poll.
ConnectOutcomes ==
    {Pending, ReadyOk("tcp")} \cup {ReadyErr(e) : e \in TransportErrors}

\* Mutant: a transport error reported as would-block.
SyncStream_map_swallow(o) ==
    IF o.poll = "Ready" /\ o.res = "Ok" THEN Ok(o.val) ELSE Err(WouldBlock)

\* SyncStream::{read, write, flush}: the closure handed to with_context.
SyncStream_map(o) ==
    IF o.poll = "Ready" THEN [res |-> o.res, val |-> o.val] ELSE Err(WouldBlock)

\* Mutant: the Context is built from a no-op waker, not from the relayed one.
SyncStream_with_context_lost(waker, o) ==
    IF waker = NoWaker
    THEN [r |-> Err(WouldBlock), polled |-> FALSE, w |-> NoWaker]
    ELSE [r |-> SyncStream_map(o), polled |-> TRUE, w |-> "noop"]

\* Mutant: with the relay empty the transport is polled with a no-op waker.
SyncStream_with_context_noop(waker, o) ==
    IF waker = NoWaker
    THEN [r |-> SyncStream_map(o), polled |-> TRUE, w |-> "noop"]
    ELSE [r |-> SyncStream_map(o), polled |-> TRUE, w |-> waker]

\* SyncStream::with_context: no transport call at all when WAKER is unset,
\* else one call of f with a Context built from the waker WAKER holds.
SyncStream_with_context(waker, o) ==
    IF waker = NoWaker
    THEN [r |-> Err(WouldBlock), polled |-> FALSE, w |-> NoWaker]
    ELSE [r |-> SyncStream_map(o), polled |-> TRUE, w |-> waker]

AdapterFns == {"read", "write", "flush"}

\* The transport operation the closure of SyncStream::<fn> polls.
SyncStream_op(fn) ==
    CASE fn = "read" -> "poll_read"
      [] fn = "write" -> "poll_write"
      [] fn = "flush" -> "poll_flush"

\* One call of SyncStream::<fn> while WAKER holds `waker` and the transport
\* would answer o: what it polled, with which waker, and what it returned.
SyncStream_call(fn, waker, o) ==
    LET a == SyncStream_with_context(waker, o)
    IN  [fn |-> fn, relay |-> waker, w |-> a.w,
         top |-> IF a.polled THEN SyncStream_op(fn) ELSE "-",
         polls |-> IF a.polled THEN 1 ELSE 0,
         o |-> IF a.polled THEN o ELSE NoRet,
         r |-> a.r]

\* The adapter function an engine call reaches the transport through.
AdapterFn(op) ==
    CASE op = "read" -> "read"
      [] op = "write" -> "write"
      [] op = "flush" -> "flush"
      [] op = "shutdown" -> "write"
      [] OTHER -> "read"

\* Mutant: the scope ends by clearing the slot, not by restoring it.
WAKER_exit_unset ==
    WAKER' = NoWaker /\ saved' = SubSeq(saved, 1, Len(saved) - 1)

\* Mutant: the scope ends without restoring the slot.
WAKER_exit_leak == WAKER' = WAKER /\ saved' = saved

\* Mutant: the slot is given a handle of an earlier poll, not this poll's.
WAKER_enter_stale(w) == WAKER' = "w1" /\ saved' = Append(saved, WAKER)

\* scoped_tls: WAKER.set saves the slot, the end of the scope restores it.
WAKER_enter(w) == WAKER' = w /\ saved' = Append(saved, WAKER)
WAKER_exit == WAKER' = saved[Len(saved)] /\ saved' = SubSeq(saved, 1, Len(saved) - 1)

\* Mutant: the WouldBlock arm missing.
TlsStream_match_noWouldBlock(r) ==
    IF r.res = "Ok" THEN ReadyOk(r.val) ELSE ReadyErr(r.val)

\* The three arms of TlsStream::poll_{read,write,flush,shutdown}.
TlsStream_match(r) ==
    IF r.res = "Ok" THEN ReadyOk(r.val)
    ELSE IF r.val = WouldBlock THEN Pending
    ELSE ReadyErr(r.val)

\* Mutant: a would-block of the handshake reported as its failure.
Handshaking_match_noWouldBlock(r) ==
    IF r.res = "Ok" THEN ReadyOk("session") ELSE ReadyErr("HandshakeInterrupted")

\* The arms of Handshaking::poll on mid.handshake()'s result.
Handshaking_match(r) ==
    IF r.res = "Ok" THEN ReadyOk("session")
    ELSE IF r.val = WouldBlock THEN Pending
    ELSE ReadyErr(r.val)

\* Mutant: the slot read in place (as_ref) instead of taken.
Handshaking_take_peek(inner) == inner

\* this.inner after this.inner.take()
Handshaking_take(inner) == InnerNone

\* Mutant: the failure stored back, to be reported again.
Handshaking_keep_failure(r, left) ==
    IF r.res = "Err" /\ r.val = WouldBlock THEN InnerWouldBlock(left)
    ELSE IF r.res = "Err" THEN InnerFailure(r.val)
    ELSE InnerNone

\* this.inner after mid.handshake() returned r with `left` steps to go.
Handshaking_keep(r, left) ==
    IF r.res = "Err" /\ r.val = WouldBlock THEN InnerWouldBlock(left) ELSE InnerNone

\* ------------------------------------------------------------------ Init
Init ==
    /\ force_https = FALSE
    /\ fut = "none"
    /\ is_https = FALSE
    /\ host = <<>>
    /\ httpCalls = 0
    /\ hsStarted = 0
    /\ hs = NoHs
    /\ WAKER = NoWaker
    /\ saved = <<>>
    /\ at = "out"
    /\ cx = NoWaker
    /\ eng = NoEng
    /\ ret = NoRet
    /\ result = NoResult
    /\ cnt = NoCnt
    /\ hsOut = <<>>
    /\ stream = "none"
    /\ sop = NoSop
    /\ req = NoReq
    /\ connecting = "none"
    /\ shut = NoShut
    /\ adp = NoAdp
    /\ probe = NoProbe
    /\ dropped = "no"
    /\ wake = "none"
    /\ st = [s \in Streams |-> NoSt]
    /\ stack = <<>>
    /\ tp = NoTp

concVars == <<st, stack, tp>>
histVars == <<shut, probe, dropped, wake>>
auxVars == <<adp, histVars>>
connVars == <<fut, is_https, host, httpCalls, hsStarted, result, req, connecting>>
relayVars == <<WAKER, saved>>

\* ------------------------------------------------------------- connector
\* HttpsConnector::https_only
https_only(enable) ==
    /\ at = "out"
    /\ force_https' = enable
    /\ UNCHANGED <<connVars, hs, relayVars, at, cx, eng, ret, cnt, hsOut, stream, sop,
                   auxVars>>
    /\ UNCHANGED concVars

\* HttpsConnector::call: the early abort, the host, self.http.call(dst) and
\* the boxed future; nothing of the async block runs before the first poll.
call(dst) ==
    /\ at = "out" /\ fut = "none" /\ ~hs.exists /\ ~hs.direct /\ stream = "none"
    /\ is_https' = IsHttps(dst)
    /\ req' = [scheme |-> dst.scheme, host |-> dst.host, force |-> force_https]
    /\ IF EarlyAbort(IsHttps(dst), force_https)
       THEN /\ fut' = "err"
            /\ UNCHANGED <<host, httpCalls, connecting>>
       ELSE /\ host' = ExtractHost(dst)
            /\ httpCalls' = httpCalls + 1
            /\ connecting' = "pending"
            /\ fut' = "connecting"
    /\ probe' = NoProbe
    /\ dropped' = "no"
    /\ wake' = "due"
    /\ UNCHANGED <<force_https, hsStarted, result, hs, relayVars, at, cx, eng,
                   ret, cnt, hsOut, stream, sop, shut, adp>>
    /\ UNCHANGED concVars

\* HttpsConnecting::poll of the future err() built: async { Err(e) }.
PollErr(w) ==
    /\ at = "out" /\ fut = "err"
    /\ result' = Err(ForceHttpsButUriNotHttps)
    /\ fut' = "resolved"
    /\ wake' = "none"
    /\ UNCHANGED <<force_https, is_https, host, httpCalls, hsStarted, hs, req,
                   connecting, relayVars, at, cx, eng, ret, cnt, hsOut, stream, sop,
                   adp, shut, probe, dropped>>
    /\ UNCHANGED concVars

\* Mutant: a failed plain connect is tried again instead of returned.
PollConnecting_retry(w, o) ==
    /\ at = "out" /\ fut = "connecting"
    /\ o.poll = "Ready" /\ o.res = "Err"
    /\ httpCalls' = httpCalls + 1
    /\ UNCHANGED <<force_https, fut, is_https, host, hsStarted, result, req,
                   connecting, hs, relayVars, at, cx, eng, ret, cnt, hsOut,
                   stream, sop, auxVars>>
    /\ UNCHANGED concVars

\* HttpsConnecting::poll while the async block awaits `connecting`:
\*   let tcp = connecting.await.map_err(Into::into)?;
\* then either MaybeHttpsStream::Http(tcp) or tls.connect(&host, tcp), whose
\* first engine call runs here, in this poll, outside any WAKER scope.
PollConnecting(w, o) ==
    /\ at = "out" /\ fut = "connecting"
    /\ CASE o.poll = "Pending" ->
              /\ wake' = "registered"
              /\ UNCHANGED <<fut, result, stream, hsStarted, at, cx, eng, hs, connecting>>
         [] o.poll = "Ready" /\ o.res = "Err" ->
              /\ connecting' = o.val
              /\ result' = Err(MapErr(o.val))
              /\ fut' = "resolved"
              /\ wake' = "none"
              /\ UNCHANGED <<stream, hsStarted, at, cx, eng, hs>>
         [] o.poll = "Ready" /\ o.res = "Ok" /\ ~is_https ->
              /\ connecting' = "ok"
              /\ result' = Ok(AsyncBlock_wrap(is_https))
              /\ stream' = AsyncBlock_wrap(is_https)
              /\ fut' = "resolved"
              /\ wake' = "none"
              /\ UNCHANGED <<hsStarted, at, cx, eng, hs>>
         [] o.poll = "Ready" /\ o.res = "Ok" /\ is_https ->
              /\ connecting' = "ok"
              /\ \E n \in 0..MaxSteps :
                    eng' = [op |-> "connect", left |-> n, out |-> Ok("-")]
              /\ hsStarted' = hsStarted + 1
              /\ fut' = "handshaking"
              /\ cx' = w
              /\ at' = "engine"
              /\ wake' = "none"
              /\ UNCHANGED <<result, stream, hs>>
    /\ UNCHANGED <<force_https, is_https, host, httpCalls, relayVars, ret, cnt,
                   hsOut, sop, req, adp, shut, probe, dropped>>
    /\ UNCHANGED concVars

\* HttpsConnecting::poll while the async block awaits the handshake.
PollHandshaking(w) ==
    /\ at = "out" /\ fut = "handshaking"
    /\ cx' = w
    /\ at' = "hs_poll"
    /\ UNCHANGED <<force_https, connVars, hs, relayVars, eng, ret, cnt, hsOut,
                   stream, sop, auxVars>>
    /\ UNCHANGED concVars

\* HttpsConnecting::poll after it returned Ready: the async block panics.
PollResolved(w) ==
    /\ at = "out" /\ fut = "resolved"
    /\ fut' = "panicked"
    /\ UNCHANGED <<force_https, is_https, host, httpCalls, hsStarted, result, req,
                   connecting, hs, relayVars, at, cx, eng, ret, cnt, hsOut, stream, sop,
                   auxVars>>
    /\ UNCHANGED concVars

\* ---------------------------------------------------------------- engine
\* What the engine may report once it needs no more I/O.
EngineVerdicts(op) ==
    IF op \in {"connect", "handshake"}
    THEN {Ok("session")} \cup {Err(e) : e \in TlsErrors}
    ELSE {Ok("n")} \cup {Err(e) : e \in IoErrors}

HandshakeOps == {"connect", "handshake"}

\* One step of the engine call in progress: with I/O left it makes one
\* adapter call (SyncStream read/write/flush) and goes on only if that call
\* returned a value; an adapter error ends the engine call with that error
\* (would-block included).  With no I/O left it returns its verdict.
EngineStep(o, v) ==
    /\ at = "engine"
    /\ IF eng.left = 0
       THEN /\ v \in EngineVerdicts(eng.op)
            /\ o = ReadyOk("n")
            /\ eng' = [eng EXCEPT !.out = v]
            /\ at' = "engine_ret"
            /\ UNCHANGED <<cnt, sop, adp>>
       ELSE LET c == SyncStream_call(AdapterFn(eng.op), WAKER, o)
                a == [r |-> c.r, polled |-> c.polls = 1]
                notready == a.polled /\ o.poll = "Pending"
                hsk == eng.op \in HandshakeOps
            IN  /\ v = Ok("n")
                /\ (hsk /\ notready) => cnt.tnotready < MaxPend
                /\ ~a.polled => o = Pending
                /\ IF a.r.res = "Ok"
                   THEN /\ eng' = [eng EXCEPT !.left = @ - 1]
                        /\ at' = "engine"
                   ELSE /\ eng' = [eng EXCEPT !.out = a.r]
                        /\ at' = "engine_ret"
                /\ cnt' = IF hsk
                          THEN [wb |-> cnt.wb + (IF a.r = Err(WouldBlock) THEN 1 ELSE 0),
                                wbPoll |-> cnt.wbPoll
                                    + (IF a.r = Err(WouldBlock) /\ eng.op = "handshake"
                                       THEN 1 ELSE 0),
                                tpolls |-> cnt.tpolls + (IF a.polled THEN 1 ELSE 0),
                                tnotready |-> cnt.tnotready + (IF notready THEN 1 ELSE 0)]
                          ELSE cnt
                /\ sop' = IF ~hsk /\ a.polled
                          THEN [sop EXCEPT !.tops = @ \cup {AdapterFn(eng.op)}]
                          ELSE sop
                /\ adp' = c
    /\ UNCHANGED <<force_https, connVars, hs, relayVars, cx, ret, hsOut, stream,
                   histVars>>
    /\ UNCHANGED concVars

\* The Handshaking that tls.connect builds from the engine's first call.
FirstInner(r, left) ==
    IF r.res = "Ok" THEN InnerOk
    ELSE IF r.val = WouldBlock THEN InnerWouldBlock(left)
    ELSE InnerFailure(r.val)

\* tls.connect(&host, tcp): Handshaking { inner: Some(first call's result) };
\* the async block's await polls it at once, a direct user polls it later.
TlsConnector_connect ==
    /\ at = "engine_ret" /\ eng.op = "connect"
    /\ hs' = [hs EXCEPT !.exists = TRUE, !.inner = FirstInner(eng.out, eng.left)]
    /\ at' = IF hs.direct THEN "out" ELSE "hs_poll"
    /\ eng' = NoEng
    /\ UNCHANGED <<force_https, connVars, relayVars, cx, ret, cnt, hsOut, stream, sop,
                   auxVars>>
    /\ UNCHANGED concVars

\* ----------------------------------------------------------- Handshaking
\* Handshaking::poll up to the engine call: take(), expect, WAKER.set, match.
Handshaking_poll ==
    /\ at = "hs_poll"
    /\ IF hs.inner.tag = "None"
       THEN \* .expect("polled after ready") panics before WAKER.set
            /\ hs' = [hs EXCEPT !.panicked = TRUE]
            /\ fut' = IF hs.direct THEN fut ELSE "panicked"
            /\ at' = "out"
            /\ UNCHANGED <<relayVars, eng, ret, adp>>
       ELSE /\ hs' = [hs EXCEPT !.inner = Handshaking_take(hs.inner)]
            /\ WAKER_enter(cx)
            /\ adp' = NoAdp
            /\ fut' = fut
            /\ CASE hs.inner.tag = "Ok" ->
                      /\ ret' = ReadyOk("session")
                      /\ at' = "hs_exit"
                      /\ eng' = eng
                 [] hs.inner.tag = "Failure" ->
                      /\ ret' = ReadyErr(hs.inner.err)
                      /\ at' = "hs_exit"
                      /\ eng' = eng
                 [] hs.inner.tag = "WouldBlock" ->
                      /\ eng' = [op |-> "handshake", left |-> hs.inner.left,
                                 out |-> Ok("-")]
                      /\ at' = "engine"
                      /\ ret' = ret
    /\ UNCHANGED <<force_https, is_https, host, httpCalls, hsStarted, result, req,
                   connecting, cx, cnt, hsOut, stream, sop, histVars>>
    /\ UNCHANGED concVars

\* Handshaking::poll on mid.handshake()'s return.
Handshaking_poll_handshake ==
    /\ at = "engine_ret" /\ eng.op = "handshake"
    /\ ret' = Handshaking_match(eng.out)
    /\ hs' = [hs EXCEPT !.inner = Handshaking_keep(eng.out, eng.left)]
    /\ at' = "hs_exit"
    /\ UNCHANGED <<force_https, connVars, relayVars, cx, cnt, hsOut, stream, sop, eng,
                   auxVars>>
    /\ UNCHANGED concVars

\* Who will wake a task that got Pending from a poll made with waker w: the
\* transport if the poll's last adapter call polled it with w and found it
\* not ready (it then keeps w, the AsyncRead/AsyncWrite contract), nobody else.
Registered(a, w) ==
    IF a.polls = 1 /\ a.o = Pending /\ a.w = w THEN "registered" ELSE "lost"

\* The end of the WAKER.set scope and the return of Handshaking::poll; in a
\* connect attempt the async block goes on: `?`, MaybeHttpsStream::Https(tls).
Handshaking_poll_return ==
    /\ at = "hs_exit"
    /\ WAKER_exit
    /\ hsOut' = Append(hsOut, ret)
    /\ at' = "out"
    /\ IF hs.direct \/ ret.poll = "Pending"
       THEN UNCHANGED <<fut, result, stream>>
       ELSE /\ fut' = "resolved"
            /\ result' = AsyncBlock_finish(is_https, ret)
            /\ stream' = IF result'.res = "Ok" THEN result'.val ELSE stream
    /\ wake' = IF hs.direct THEN wake
               ELSE IF ret.poll = "Pending" THEN Registered(adp, cx)
               ELSE "none"
    /\ UNCHANGED <<force_https, is_https, host, httpCalls, hsStarted, hs, cx,
                   eng, ret, cnt, sop, req, connecting, adp, shut, probe, dropped>>
    /\ UNCHANGED concVars

\* A Handshaking built and driven directly, without the connector.
Handshaking_new(n) ==
    /\ at = "out" /\ fut = "none" /\ ~hs.exists /\ ~hs.direct /\ stream = "none"
    /\ hs' = [NoHs EXCEPT !.direct = TRUE]
    /\ eng' = [op |-> "connect", left |-> n, out |-> Ok("-")]
    /\ at' = "engine"
    /\ dropped' = "no"
    /\ UNCHANGED <<force_https, connVars, relayVars, cx, ret, cnt, hsOut, stream, sop,
                   shut, adp, probe, wake>>
    /\ UNCHANGED concVars

\* The direct user's poll of the Handshaking, after its Ready too.
DirectPoll(w) ==
    /\ at = "out" /\ hs.exists /\ hs.direct
    /\ cx' = w
    /\ at' = "hs_poll"
    /\ UNCHANGED <<force_https, connVars, hs, relayVars, eng, ret, cnt, hsOut,
                   stream, sop, auxVars>>
    /\ UNCHANGED concVars

\* -------------------------------------------------------------- TlsStream
\* TlsStream::poll_{read,write,flush,shutdown} up to the engine call:
\* WAKER.set(cx.waker(), || match self.inner.<op>(..) ..)
TlsStream_poll_begin(op, w, n, via) ==
    /\ WAKER_enter(w)
    /\ cx' = w
    /\ eng' = [op |-> op, left |-> n, out |-> Ok("-")]
    /\ sop' = [name |-> op, via |-> via, invoked |-> {<<"Https", op>>},
               tops |-> {}, done |-> FALSE]
    /\ at' = "engine"
    /\ ret' = NoRet
    /\ adp' = NoAdp

\* Mutant: poll_shutdown goes on to the transport's poll_shutdown.
TlsStream_transport_ops_shutdown(op) ==
    IF op = "shutdown" THEN {"poll_shutdown"} ELSE {}

\* The transport operations TlsStream::poll_<op> calls itself, besides the
\* engine call: none, the body is the WAKER.set scope and the match only.
TlsStream_transport_ops(op) == {}

\* A poll of the secure stream itself (MaybeHttpsStream::Https(s) => s).
TlsStream_poll(op, w, n) ==
    /\ at = "out" /\ stream = "Https"
    /\ TlsStream_poll_begin(op, w, n, "secure")
    /\ UNCHANGED <<force_https, connVars, hs, cnt, hsOut, stream, histVars>>
    /\ UNCHANGED concVars

\* The match on the engine's result, the end of the WAKER.set scope and the
\* return of TlsStream::poll_*.
TlsStream_poll_return ==
    /\ at = "engine_ret" /\ eng.op \in StreamOps
    /\ ret' = TlsStream_match(eng.out)
    /\ WAKER_exit
    /\ sop' = [sop EXCEPT !.done = TRUE]
    /\ shut' = [transport |-> shut.transport
                                 \/ "poll_shutdown" \in TlsStream_transport_ops(eng.op),
                secure |-> shut.secure
                              \/ (eng.op = "shutdown" /\ ret' = ReadyOk("n"))]
    /\ at' = "out"
    /\ UNCHANGED <<force_https, connVars, hs, cx, cnt, hsOut, stream, eng, adp,
                   probe, dropped, wake>>
    /\ UNCHANGED concVars

\* ------------------------------------------------------- MaybeHttpsStream
\* Whether MaybeHttpsStream::poll_<op> matches on self and calls the
\* variant's poll_<op>: poll_read, poll_write and poll_shutdown do,
\* poll_flush returns Poll::Ready(Ok(())) itself.
MaybeHttpsStream_dispatches(op) == op # "flush"

\* MaybeHttpsStream::poll_{read,write,flush,shutdown}
MaybeHttpsStream_poll(op, w, n, o) ==
    /\ at = "out" /\ stream # "none"
    /\ IF ~MaybeHttpsStream_dispatches(op)
       THEN /\ ret' = ReadyOk("unit")
            /\ sop' = [name |-> op, via |-> "unified", invoked |-> {},
                       tops |-> {}, done |-> TRUE]
            /\ n = 0 /\ o = Pending
            /\ UNCHANGED <<relayVars, cx, eng, at, adp, shut>>
       ELSE IF stream = "Http"
       THEN /\ ret' = o
            /\ sop' = [name |-> op, via |-> "unified",
                       invoked |-> {<<"Http", op>>}, tops |-> {op}, done |-> TRUE]
            /\ n = 0
            /\ shut' = [shut EXCEPT !.transport = @ \/ op = "shutdown"]
            /\ UNCHANGED <<relayVars, cx, eng, at, adp>>
       ELSE /\ o = Pending
            /\ TlsStream_poll_begin(op, w, n, "unified")
            /\ shut' = shut
    /\ UNCHANGED <<force_https, connVars, hs, cnt, hsOut, stream, probe, dropped,
                   wake>>
    /\ UNCHANGED concVars

\* SyncStream::{read, write, flush} called by the holder of the stream through
\* TlsStream::get_mut().get_mut(), outside any poll; the records of the last
\* poll (sop, eng, ret, cx) start afresh.
SyncStream_direct(fn, o) ==
    /\ at = "out" /\ stream = "Https"
    /\ adp' = SyncStream_call(fn, WAKER, o)
    /\ adp'.polls = 0 => o = Pending
    /\ sop' = NoSop /\ eng' = NoEng /\ ret' = NoRet /\ cx' = NoWaker
    /\ UNCHANGED <<force_https, connVars, hs, relayVars, at, cnt, hsOut, stream,
                   histVars>>
    /\ UNCHANGED concVars

\* Mutant: readiness errors swallowed.
PollReady_map_swallow(o) == IF o.res = "Err" THEN ReadyOk("unit") ELSE o

\* The match of HttpsConnector::poll_ready on self.http.poll_ready(cx):
\* Ready(Ok(())) => Ready(Ok(())), Ready(Err(e)) => Ready(Err(e.into())),
\* Pending => Pending.
PollReady_map(o) ==
    CASE o.poll = "Pending" -> Pending
      [] o.poll = "Ready" /\ o.res = "Ok" -> ReadyOk("unit")
      [] o.poll = "Ready" /\ o.res = "Err" -> ReadyErr(MapErr(o.val))

\* What the plain connector's poll_ready may answer.
ReadyOutcomes ==
    {Pending, ReadyOk("unit")} \cup {ReadyErr(e) : e \in TransportErrors}

\* HttpsConnector::poll_ready: one call of self.http.poll_ready(cx), matched.
poll_ready(o) ==
    /\ at = "out" /\ fut = "none"
    /\ probe' = [calls |-> 1, inner |-> o, ret |-> PollReady_map(o),
                 force |-> force_https]
    /\ UNCHANGED <<force_https, connVars, hs, relayVars, at, cx, eng, ret, cnt,
                   hsOut, stream, sop, shut, adp, dropped, wake>>
    /\ UNCHANGED concVars

\* Mutant: the dropped future's transport and handshake left behind.
Released_leak(h, e, c) == [hs |-> h, eng |-> e, connecting |-> c]

\* What is left of the attempt once its owner is dropped: HttpsConnecting
\* owns the boxed async block, which owns `connecting`, then the Handshaking,
\* which owns the engine's mid-handshake state and the SyncStream.
Released(h, e, c) == [hs |-> NoHs, eng |-> NoEng, connecting |-> "none"]

\* Where the attempt in progress is suspended, "no" if none is.
Suspended ==
    IF fut \in {"connecting", "handshaking"} THEN fut
    ELSE IF hs.direct /\ hs.inner.tag # "None" THEN "direct"
    ELSE "no"

\* The source that found the task's waker not ready becomes ready and wakes
\* the task: the executor schedules a poll.
Wake ==
    /\ at = "out" /\ wake = "registered"
    /\ wake' = "due"
    /\ UNCHANGED <<force_https, connVars, hs, relayVars, at, cx, eng, ret, cnt,
                   hsOut, stream, sop, adp, shut, probe, dropped>>
    /\ UNCHANGED concVars

\* The caller drops what it holds (future, Handshaking, stream) between polls.
Discard ==
    /\ at = "out"
    /\ fut # "none" \/ hs.direct \/ stream # "none"
    /\ fut' = "none" /\ is_https' = FALSE /\ host' = <<>>
    /\ httpCalls' = 0 /\ hsStarted' = 0
    /\ hs' = Released(hs, eng, connecting).hs
    /\ eng' = Released(hs, eng, connecting).eng
    /\ connecting' = Released(hs, eng, connecting).connecting
    /\ ret' = NoRet /\ result' = NoResult
    /\ cnt' = NoCnt /\ hsOut' = <<>> /\ stream' = "none" /\ sop' = NoSop
    /\ cx' = NoWaker /\ req' = NoReq
    /\ shut' = NoShut /\ adp' = NoAdp
    /\ dropped' = Suspended
    /\ wake' = "none"
    /\ UNCHANGED <<force_https, relayVars, at, probe>>
    /\ UNCHANGED concVars

\* ------------------------------------------------------------------ Next
Next ==
    \/ \E b \in BOOLEAN : https_only(b)
    \/ \E dst \in Targets : call(dst)
    \/ \E w \in Wakers : PollErr(w)
    \/ \E w \in Wakers, o \in ConnectOutcomes : PollConnecting(w, o)
    \/ \E w \in Wakers : PollHandshaking(w)
    \/ \E w \in Wakers : PollResolved(w)
    \/ \E o \in TransportOutcomes, v \in EngineVerdicts(eng.op) \cup {Ok("n")} :
          EngineStep(o, v)
    \/ TlsConnector_connect
    \/ Handshaking_poll
    \/ Handshaking_poll_handshake
    \/ Handshaking_poll_return
    \/ \E n \in 0..MaxSteps : Handshaking_new(n)
    \/ \E w \in Wakers : DirectPoll(w)
    \/ \E op \in StreamOps, w \in Wakers, n \in 0..MaxSteps : TlsStream_poll(op, w, n)
    \/ TlsStream_poll_return
    \/ \E op \in StreamOps, w \in Wakers, n \in 0..MaxSteps, o \in TransportOutcomes :
          MaybeHttpsStream_poll(op, w, n, o)
    \/ \E fn \in AdapterFns, o \in TransportOutcomes : SyncStream_direct(fn, o)
    \/ \E o \in ReadyOutcomes : poll_ready(o)
    \/ Wake
    \/ Discard

Spec == Init /\ [][Next]_vars

\* ------------------------------------------------- the scheduled attempt
\* The executor's polls of the connect future: made when the task is due,
\* that is once after call and once after each wake.
TaskPollErr(w) == wake = "due" /\ PollErr(w)
TaskPollConnecting(w, o) == wake = "due" /\ PollConnecting(w, o)
TaskPollHandshaking(w) == wake = "due" /\ PollHandshaking(w)

\* A poll of the plain connector's future in which it is ready.
ConnectReady ==
    \E w \in Wakers, o \in ConnectOutcomes \ {Pending} : TaskPollConnecting(w, o)

\* The caller lets go of the resolved future and of the stream it yielded.
Retire == fut = "resolved" /\ Discard

LiveNext ==
    \/ \E b \in BOOLEAN : https_only(b)
    \/ \E dst \in Targets : call(dst)
    \/ \E w \in Wakers : TaskPollErr(w)
    \/ \E w \in Wakers, o \in ConnectOutcomes : TaskPollConnecting(w, o)
    \/ \E w \in Wakers : TaskPollHandshaking(w)
    \/ \E o \in TransportOutcomes, v \in EngineVerdicts(eng.op) \cup {Ok("n")} :
          EngineStep(o, v)
    \/ TlsConnector_connect
    \/ Handshaking_poll
    \/ Handshaking_poll_handshake
    \/ Handshaking_poll_return
    \/ Wake
    \/ Retire

\* The task is polled when due; the plain connector's future is ready in
\* some poll; a source holding the waker becomes ready and wakes the task;
\* the code inside one poll, engine call included, runs on to its return.
\* That the engine needs finitely many round trips is MaxSteps and MaxPend.
Fairness ==
    /\ WF_vars(\E w \in Wakers : TaskPollErr(w))
    /\ WF_vars(\E w \in Wakers : TaskPollHandshaking(w))
    /\ SF_vars(ConnectReady)
    /\ WF_vars(Wake)
    /\ WF_vars(\E o \in TransportOutcomes, v \in EngineVerdicts(eng.op) \cup {Ok("n")} :
                  EngineStep(o, v))
    /\ WF_vars(TlsConnector_connect)
    /\ WF_vars(Handshaking_poll)
    /\ WF_vars(Handshaking_poll_handshake)
    /\ WF_vars(Handshaking_poll_return)

LiveSpec == Init /\ [][LiveNext]_vars /\ Fairness

\* ------------------------------------------- several streams, one thread
\* The same code run for several streams whose polls a single thread makes one
\* after the other: WAKER and saved are the thread's, everything else is the
\* stream's own.  A poll runs to its return before the next top-level poll;
\* a poll of C calls B's poll_* from inside C's adapter.
soloVars == <<force_https, connVars, hs, at, cx, eng, ret, cnt, hsOut, stream, sop,
              auxVars>>

Top == stack[Len(stack)]
Pop == SubSeq(stack, 1, Len(stack) - 1)
Frame(s, w, op, left, out) == [s |-> s, w |-> w, op |-> op, left |-> left, out |-> out]

\* B is C's transport once C exists: only C's adapter polls it then.
Owned(s) == s = "B" /\ st["C"].phase # "new"

\* tls.connect(&host, stream) inside the poll (waker w) of the attempt's
\* future: the engine's first call starts, outside any WAKER.set scope.
Conc_connect(s, w, n, v) ==
    /\ stack = <<>> /\ st[s].phase = "new"
    /\ Transport(s) # "plain" => st[Transport(s)].phase = "up"
    /\ st' = [st EXCEPT ![s].phase = "hs", ![s].verdict = v]
    /\ stack' = <<Frame(s, w, "connect", n, Running)>>
    /\ UNCHANGED <<soloVars, relayVars, tp>>

\* Handshaking::poll of stream s up to the engine call.
Conc_poll_handshake(s, w) ==
    /\ stack = <<>> /\ st[s].phase = "hs" /\ st[s].inner.tag # "None"
    /\ WAKER_enter(w)
    /\ st' = [st EXCEPT ![s].inner = Handshaking_take(st[s].inner)]
    /\ stack' = <<Frame(s, w, "handshake", st[s].inner.left,
                        CASE st[s].inner.tag = "Ok" -> Ok("session")
                          [] st[s].inner.tag = "Failure" -> Err(st[s].inner.err)
                          [] OTHER -> Running)>>
    /\ UNCHANGED <<soloVars, tp>>

\* TlsStream::poll_read / poll_write of stream s up to the engine call.
Conc_poll_op(s, w, op, n) ==
    /\ stack = <<>> /\ st[s].phase = "up" /\ ~Owned(s)
    /\ WAKER_enter(w)
    /\ stack' = <<Frame(s, w, op, n, Running)>>
    /\ UNCHANGED <<soloVars, st, tp>>

\* The engine call of the innermost poll returns its verdict: no I/O left.
Conc_verdict ==
    /\ stack # <<>> /\ Top.out = Running /\ Top.left = 0
    /\ stack' = [stack EXCEPT ![Len(stack)].out =
                     IF Top.op \in HandshakeOps THEN st[Top.s].verdict ELSE Ok("n")]
    /\ UNCHANGED <<soloVars, relayVars, st, tp>>

HandshakesRunning == {stack[i].s : i \in {j \in 1..Len(stack) : stack[j].op \in HandshakeOps}}

\* One adapter call of the innermost engine call on a transport of its own.
Conc_io(o) ==
    /\ stack # <<>> /\ Top.out = Running /\ Top.left > 0
    /\ Transport(Top.s) = "plain"
    /\ LET c == SyncStream_call(AdapterFn(Top.op), WAKER, o)
           hit == IF c.polls = 1 /\ o = Pending THEN HandshakesRunning \cap {Top.s} ELSE {}
       IN  /\ c.polls = 0 => o = Pending
           /\ (c.polls = 1 /\ o = Pending) =>
                  \A s \in HandshakesRunning : st[s].notready < MaxPend
           /\ tp' = [s |-> Top.s, used |-> c.w, cur |-> Top.w, polls |-> c.polls]
           /\ stack' = [stack EXCEPT ![Len(stack)] =
                            IF c.r.res = "Ok" THEN [@ EXCEPT !.left = @ - 1]
                            ELSE [@ EXCEPT !.out = c.r]]
           /\ st' = [s \in Streams |->
                        IF s \in hit THEN [st[s] EXCEPT !.notready = @ + 1] ELSE st[s]]
    /\ UNCHANGED <<soloVars, relayVars>>

\* One adapter call of the innermost engine call on a transport that is a
\* secure stream: with the relay empty it returns would-block, else it calls
\* that stream's poll_<fn> with a Context built from the relayed waker.
Conc_nest(n) ==
    /\ stack # <<>> /\ Top.out = Running /\ Top.left > 0
    /\ Transport(Top.s) # "plain"
    /\ LET c == SyncStream_call(AdapterFn(Top.op), WAKER, Pending)
       IN  /\ tp' = [s |-> Top.s, used |-> c.w, cur |-> Top.w, polls |-> c.polls]
           /\ IF c.polls = 0
              THEN /\ n = 0
                   /\ stack' = [stack EXCEPT ![Len(stack)].out = c.r]
                   /\ UNCHANGED relayVars
              ELSE /\ WAKER_enter(c.w)
                   /\ stack' = Append(stack, Frame(Transport(Top.s), c.w,
                                                   AdapterFn(Top.op), n, Running))
    /\ UNCHANGED <<soloVars, st>>

\* The nested poll returns into the adapter call that made it.
Conc_unnest ==
    /\ Len(stack) > 1 /\ Top.out # Running
    /\ WAKER_exit
    /\ LET r == SyncStream_map(TlsStream_match(Top.out))
           parent == stack[Len(stack) - 1]
       IN  /\ stack' = [Pop EXCEPT ![Len(stack) - 1] =
                            IF r.res = "Ok" THEN [@ EXCEPT !.left = @ - 1]
                            ELSE [@ EXCEPT !.out = r]]
           /\ st' = IF r = Err(WouldBlock) /\ parent.op \in HandshakeOps
                    THEN [st EXCEPT ![parent.s].notready = @ + 1]
                    ELSE st
    /\ UNCHANGED <<soloVars, tp>>

\* The first engine call returned: Handshaking { inner: Some(result) }.
Conc_connected ==
    /\ Len(stack) = 1 /\ Top.out # Running /\ Top.op = "connect"
    /\ st' = [st EXCEPT ![Top.s].inner = FirstInner(Top.out, Top.left)]
    /\ stack' = <<>>
    /\ UNCHANGED <<soloVars, relayVars, tp>>

\* A top-level poll returns: the match on the engine's result and the end of
\* the WAKER.set scope.
Conc_return ==
    /\ Len(stack) = 1 /\ Top.out # Running /\ Top.op # "connect"
    /\ WAKER_exit
    /\ stack' = <<>>
    /\ IF Top.op = "handshake"
       THEN LET r == Handshaking_match(Top.out)
            IN  st' = [st EXCEPT
                         ![Top.s].inner = Handshaking_keep(Top.out, Top.left),
                         ![Top.s].pend = IF r = Pending THEN @ + 1 ELSE @,
                         ![Top.s].phase = IF r = Pending THEN "hs"
                                          ELSE IF r.res = "Ok" THEN "up" ELSE "failed",
                         ![Top.s].res = IF r = Pending THEN @
                                        ELSE [res |-> r.res, val |-> r.val]]
       ELSE st' = st
    /\ UNCHANGED <<soloVars, tp>>

ConcNext ==
    \/ \E s \in Streams, w \in Wakers, n \in 0..MaxSteps, v \in EngineVerdicts("connect") :
          Conc_connect(s, w, n, v)
    \/ \E s \in Streams, w \in Wakers : Conc_poll_handshake(s, w)
    \/ \E s \in Streams, w \in Wakers, op \in {"read", "write"}, n \in 0..MaxSteps :
          Conc_poll_op(s, w, op, n)
    \/ Conc_verdict
    \/ \E o \in {Pending, ReadyOk("n")} : Conc_io(o)
    \/ \E n \in 0..MaxSteps : Conc_nest(n)
    \/ Conc_unnest
    \/ Conc_connected
    \/ Conc_return

ConcSpec == Init /\ [][ConcNext]_vars

\* ================================================================ claims
Last(q) == q[Len(q)]
Attempt == fut # "none"
Resolved == fut \in {"resolved", "panicked"}
HandshakeOk == hsOut # <<>> /\ Last(hsOut) = ReadyOk("session")
HandshakeFailed == hsOut # <<>> /\ Last(hsOut).res = "Err"

\* C1: an attempt called with a non-https scheme while force_https was set
\* never reaches the plain connector (zero calls of http.call, no handshake)
\* and its future resolves to the ForceHttpsButUriNotHttps error, no stream.
C1_ForcedNonHttpsFails ==
    (Attempt /\ req.scheme # "https" /\ req.force) =>
        /\ httpCalls = 0 /\ connecting = "none" /\ hsStarted = 0
        /\ fut \in {"err", "resolved", "panicked"}
        /\ stream = "none"
        /\ Resolved => result = Err(ForceHttpsButUriNotHttps)

C1_Witness ==
    /\ fut = "resolved" /\ req.scheme = "http" /\ req.force
    /\ result = Err(ForceHttpsButUriNotHttps) /\ httpCalls = 0

\* C2: an https attempt whose plain connector and handshake both succeeded
\* resolves to the secure variant; an https attempt never yields the
\* plaintext variant.
C2_HttpsYieldsSecure ==
    (Attempt /\ req.scheme = "https") =>
        /\ (HandshakeOk /\ at = "out") =>
              (connecting = "ok" /\ Resolved /\ result = Ok("Https")
               /\ stream = "Https")
        /\ stream # "Http" /\ result # Ok("Http")

C2_Witness ==
    /\ fut = "resolved" /\ req.scheme = "https" /\ connecting = "ok"
    /\ HandshakeOk /\ result = Ok("Https") /\ stream = "Https"

\* C3: a non-https attempt called with force_https off (the flag a new
\* connector has) resolves, once the plain connector succeeded, to the
\* plaintext variant, and no handshake is ever started for it.
C3_PlainYieldsHttp ==
    /\ (Attempt /\ req.scheme # "https" /\ ~req.force) =>
          /\ hsStarted = 0 /\ ~hs.exists /\ hsOut = <<>> /\ cnt = NoCnt
          /\ httpCalls = 1
          /\ connecting = "ok" =>
                (Resolved /\ result = Ok("Http") /\ stream = "Http")
          /\ stream # "Https"

C3_Witness ==
    /\ fut = "resolved" /\ req.scheme = "http" /\ ~req.force
    /\ connecting = "ok" /\ result = Ok("Http") /\ hsStarted = 0

\* C4: a stream is held exactly when the attempt resolved to Ok, and then the
\* whole chain succeeded (plain connect, and the handshake for https); before
\* resolution and after any failure there is no stream; a failed handshake
\* yields an error, never a stream.
C4_NoPartialSuccess ==
    Attempt =>
        /\ (stream # "none") <=> (Resolved /\ result.res = "Ok")
        /\ (Resolved /\ result.res = "Ok") =>
              /\ connecting = "ok"
              /\ stream = result.val
              /\ is_https => HandshakeOk
        /\ (HandshakeFailed /\ at = "out") =>
              (Resolved /\ result = Err(Last(hsOut).val) /\ stream = "none")
        /\ Resolved => result.res \in {"Ok", "Err"}

C4_Witness ==
    /\ fut = "resolved" /\ is_https /\ connecting = "ok" /\ HandshakeFailed
    /\ result.res = "Err" /\ stream = "none"

\* C5: the handshake (the engine's first call included) starts only after
\* the plain connector yielded a transport; if the plain connector fails with
\* e the future resolves to e itself and the engine is never invoked.
C5_HandshakeAfterTransport ==
    Attempt =>
        /\ (hsStarted > 0 \/ hs.exists \/ eng.op \in HandshakeOps \/ cnt # NoCnt
            \/ hsOut # <<>>) => connecting = "ok"
        /\ connecting \in TransportErrors =>
              /\ Resolved /\ result = Err(connecting)
              /\ hsStarted = 0 /\ ~hs.exists /\ eng = NoEng /\ cnt = NoCnt
              /\ stream = "none"

C5_Witness ==
    /\ fut = "resolved" /\ is_https /\ connecting = "ConnectRefused"
    /\ result = Err("ConnectRefused") /\ hsStarted = 0

PendingCount == Cardinality({i \in 1..Len(hsOut) : hsOut[i] = Pending})
HandshakeDone == hsOut # <<>> /\ Last(hsOut).poll = "Ready"

\* C6 as stated: a handshake that completed returned Pending once per
\* would-block the engine reported while it was driven, and the transport
\* saw exactly that many non-blocking I/O attempts.
C6_Original ==
    (HandshakeOk /\ at = "out") =>
        (PendingCount = cnt.wbPoll /\ cnt.tpolls = cnt.wbPoll)

\* C6, amended: between polls the Handshaking has returned Pending exactly
\* once per would-block the engine reported from a handshake step run inside
\* a poll, all of them before its Ready; the transport reported not-ready
\* exactly that many times, its ready attempts coming on top; the would-block
\* of the engine's first call, made with the relay empty when the Handshaking
\* is built, causes neither a Pending nor a transport call; a completed
\* handshake of a connect attempt yields the secure variant.
C6_PendingPerWouldBlock ==
    /\ at = "out" =>
          /\ PendingCount = cnt.wbPoll
          /\ cnt.tnotready = cnt.wbPoll
          /\ HandshakeDone => PendingCount = Len(hsOut) - 1
          /\ ~HandshakeDone => PendingCount = Len(hsOut)
    /\ cnt.tpolls >= cnt.tnotready
    /\ cnt.wb - cnt.wbPoll \in {0, 1}
    /\ (at = "engine" /\ eng.op = "connect") => cnt.tpolls = 0
    /\ (HandshakeOk /\ at = "out" /\ ~hs.direct) => result = Ok("Https")

C6_Witness ==
    /\ at = "out" /\ HandshakeOk /\ ~hs.direct /\ req.scheme = "https"
    /\ PendingCount = 2 /\ cnt.wbPoll = 2 /\ cnt.tnotready = 2
    /\ result = Ok("Https")

\* C7: the Handshaking returns Ready at most once, as its last return; once
\* it has (with the engine's failure in particular) its slot is empty, so a
\* later poll stops at expect("polled after ready") and returns nothing; the
\* panic happens only after a Ready.
C7_FailedIsTerminal ==
    /\ \A i \in 1..Len(hsOut) : i < Len(hsOut) => hsOut[i] = Pending
    /\ (HandshakeDone /\ at \in {"out", "hs_poll"}) => hs.inner = InnerNone
    /\ hs.panicked => (HandshakeDone /\ hs.inner = InnerNone)
    /\ (HandshakeFailed /\ ~hs.direct /\ at = "out") => result.res = "Err"

C7_Witness ==
    /\ at = "out" /\ hs.direct /\ hs.panicked /\ HandshakeFailed
    /\ PendingCount >= 1 /\ Len(hsOut) = PendingCount + 1

\* C8: no poll returns Ready(Err(WouldBlock)) and the connect future never
\* resolves to it; a would-block that the engine reported to
\* Handshaking::poll or to TlsStream::poll_* was returned as Pending.
C8_WouldBlockInternal ==
    /\ ret.val # WouldBlock
    /\ result.val # WouldBlock
    /\ \A i \in 1..Len(hsOut) : hsOut[i].val # WouldBlock
    /\ (at = "hs_exit" /\ eng.op = "handshake" /\ eng.out = Err(WouldBlock)) =>
          ret = Pending
    /\ (at = "out" /\ sop.done /\ sop.invoked = {<<"Https", eng.op>>}
        /\ eng.out = Err(WouldBlock)) => ret = Pending

C8_Witness ==
    /\ at = "out" /\ sop.done /\ sop.via = "secure" /\ sop.name = "shutdown"
    /\ eng.op = "shutdown" /\ eng.out = Err(WouldBlock) /\ ret = Pending

\* C9: WAKER is set exactly inside the WAKER.set scope of a poll of the
\* Handshaking or of a TlsStream operation, to that poll's waker; between
\* polls, whatever the poll returned, it is unset and nothing is saved.
InScope ==
    \/ at = "hs_exit"
    \/ at \in {"engine", "engine_ret"} /\ eng.op # "connect"

C9_RelayScoped ==
    /\ ~InScope => (WAKER = NoWaker /\ saved = <<>>)
    /\ InScope => (WAKER = cx /\ cx \in Wakers /\ saved = <<NoWaker>>)

C9_Witness ==
    /\ at = "out" /\ WAKER = NoWaker /\ saved = <<>>
    /\ hsOut # <<>> /\ Last(hsOut) = Pending
    /\ sop = NoSop

\* C10 as stated: a finished poll of read, write, flush or shutdown on the
\* Unified Stream has called exactly that operation of the active variant.
C10_Dispatch ==
    (at = "out" /\ sop.done /\ sop.via = "unified") =>
        sop.invoked = {<<stream, sop.name>>}

\* What holds: read, write and shutdown are dispatched to the active variant.
C10_DispatchButFlush ==
    (at = "out" /\ sop.done /\ sop.via = "unified" /\ sop.name # "flush") =>
        sop.invoked = {<<stream, sop.name>>}

\* C11 (as the spec states it): once poll_shutdown of a secure stream has
\* returned Ready(Ok), the transport's own shutdown has been invoked by the
\* time the stream is dropped at the latest.
C11_ShutdownReachesTransport ==
    [][(stream = "Https" /\ shut.secure /\ stream' = "none") => shut.transport]_vars

SecureShutdown ==
    stream = "Https" /\ sop.name = "shutdown" /\ <<"Https", "shutdown">> \in sop.invoked

\* C11 (amended): poll_shutdown of a secure stream is the engine's shutdown
\* and nothing more: Ready(Ok) means the engine's shutdown returned Ok, the
\* transport was reached only through the adapter's read/write/flush, and the
\* transport's own shutdown is never invoked on a secure stream.
C11_ShutdownStopsAtEngine ==
    /\ stream = "Https" => ~shut.transport
    /\ SecureShutdown => "shutdown" \notin sop.tops
    /\ (SecureShutdown /\ sop.done /\ ret = ReadyOk("n")) =>
           eng.op = "shutdown" /\ eng.out = Ok("n") /\ shut.secure

C11_Witness ==
    /\ at = "out" /\ SecureShutdown /\ sop.done /\ ret = ReadyOk("n")
    /\ sop.tops # {} /\ shut.secure /\ ~shut.transport

\* C12: poll_ready makes one call of the plain connector's poll_ready and
\* returns what it returned, Ready(Ok), Ready(Err(e)) with e converted or
\* Pending, whatever the https_only flag is.
C12_ReadyForwards ==
    probe # NoProbe =>
        /\ probe.calls = 1
        /\ probe.inner = Pending => probe.ret = Pending
        /\ probe.inner = ReadyOk("unit") => probe.ret = ReadyOk("unit")
        /\ \A e \in TransportErrors :
              probe.inner = ReadyErr(e) => probe.ret = ReadyErr(e)

C12_Witness ==
    probe.calls = 1 /\ probe.force /\ probe.ret = ReadyErr("ConnectRefused")

\* C13: one attempt makes at most one call of the plain connector and starts
\* at most one handshake, however often it is polled; once either has failed
\* the future is resolved to that error and nothing was started again.
C13_NoRetry ==
    /\ httpCalls <= 1 /\ hsStarted <= 1
    /\ connecting \in TransportErrors =>
          Resolved /\ result = Err(connecting) /\ hsStarted = 0
    /\ (Attempt /\ HandshakeFailed) =>
          Resolved /\ result = Err(Last(hsOut).val) /\ httpCalls = 1 /\ hsStarted = 1

C13_Witness ==
    /\ fut = "panicked" /\ HandshakeFailed /\ httpCalls = 1 /\ hsStarted = 1
    /\ result = Err("BadCertificate")

\* C14: once an attempt suspended in the plain connect or between two
\* handshake steps is dropped, its transport, its Handshaking and the engine
\* call are gone and no step of the connector, the engine or the adapter is
\* enabled for it.
C14_DropReleases ==
    dropped # "no" =>
        /\ at = "out" /\ fut = "none" /\ stream = "none"
        /\ hs = NoHs /\ eng = NoEng /\ connecting = "none" /\ WAKER = NoWaker
        /\ ~ENABLED (\E o \in TransportOutcomes, v \in {Ok("n")} : EngineStep(o, v))
        /\ ~ENABLED (\E w \in Wakers, o \in ConnectOutcomes : PollConnecting(w, o))
        /\ ~ENABLED (\E w \in Wakers : PollHandshaking(w) \/ DirectPoll(w))
        /\ ~ENABLED (Handshaking_poll \/ Handshaking_poll_handshake
                        \/ Handshaking_poll_return \/ TlsConnector_connect)

C14_Witness ==
    dropped = "handshaking" /\ at = "out" /\ fut = "none" /\ hs = NoHs

\* C15: a poll of a secure stream operation or of the Handshaking returns
\* Pending only after the transport was polled in that poll, with the waker
\* of that poll, and reported not-ready.
C15_PendingRegistersWaker ==
    [][((Handshaking_poll_return \/ TlsStream_poll_return) /\ ret' = Pending) =>
          /\ adp.polls = 1 /\ adp.o = Pending
          /\ adp.w = cx /\ cx \in Wakers]_vars

C15_Witness ==
    /\ at = "out" /\ stream = "Https" /\ sop.done /\ sop.invoked # {}
    /\ ret = Pending /\ cx = "w2" /\ adp.polls = 1 /\ adp.w = "w2" /\ adp.o = Pending

\* C16: an adapter call made while the relay is empty returns would-block at
\* once and does not poll the transport.
C16_EmptyRelayWouldBlock ==
    (adp.fn # "-" /\ adp.relay = NoWaker) =>
        adp.r = Err(WouldBlock) /\ adp.polls = 0 /\ adp.top = "-" /\ adp.o = NoRet

C16_Witness ==
    adp.fn = "flush" /\ adp.relay = NoWaker /\ adp.r = Err(WouldBlock) /\ adp.polls = 0

\* C17: an adapter call made while the relay holds a handle polls the
\* transport operation of its name exactly once, with that handle, and
\* returns the value it was ready with, would-block if it was not ready, or
\* its error unchanged.
C17_AdapterPollsOnce ==
    (adp.fn # "-" /\ adp.relay # NoWaker) =>
        /\ adp.polls = 1 /\ adp.w = adp.relay
        /\ adp.fn = "read" => adp.top = "poll_read"
        /\ adp.fn = "write" => adp.top = "poll_write"
        /\ adp.fn = "flush" => adp.top = "poll_flush"
        /\ adp.o = Pending => adp.r = Err(WouldBlock)
        /\ adp.o = ReadyOk("n") => adp.r = Ok("n")
        /\ \A e \in IoErrors : adp.o = ReadyErr(e) => adp.r = Err(e)

C17_Witness ==
    /\ adp.fn = "write" /\ adp.relay = "w1" /\ adp.top = "poll_write"
    /\ adp.o = ReadyErr("BrokenPipe") /\ adp.r = Err("BrokenPipe")

\* Pending until a poll returned Ready, then Done or Failed.
HsState ==
    IF ~HandshakeDone THEN "Pending"
    ELSE IF Last(hsOut).res = "Ok" THEN "Done" ELSE "Failed"

\* C18: a Handshaking only moves from Pending to Done or Failed and stays
\* there; between polls its slot holds a value exactly when no poll has
\* returned Ready yet, and is empty from the poll that returned Ready on.
C18_HandshakeForward ==
    [][/\ (at' = "out" /\ hs'.exists) => (hs'.inner.tag # "None" <=> ~HandshakeDone')
       /\ (hs.exists /\ hs'.exists /\ HsState # "Pending") => HsState' = HsState
       /\ (hs.exists /\ hs'.exists /\ hs.inner.tag = "None" /\ at = "out") =>
              hs'.inner.tag = "None"]_vars

C18_Witness ==
    /\ at = "out" /\ hs.exists /\ hs.panicked /\ hs.inner.tag = "None"
    /\ HsState = "Done" /\ Len(hsOut) = 3

\* C20 (as the spec states it): an attempt whose target has no host never
\* holds a stream and, once resolved, has failed, whatever the plain
\* connector answered.
C20_MissingHostFails ==
    (Attempt /\ req.host = NoHost) =>
        /\ stream = "none"
        /\ Resolved => result.res = "Err"

\* What call does instead: a missing host is taken as the empty name and
\* the attempt goes on to the plain connector like any other.
C20_MissingHostProceeds ==
    (Attempt /\ req.host = NoHost /\ ~EarlyAbort(req.scheme = "https", req.force)) =>
        /\ host = <<>> /\ httpCalls = 1
        /\ (connecting = "ok" /\ req.scheme # "https") => result = Ok("Http")

Unresolved == fut \in {"err", "connecting", "handshaking"}

\* C19: under LiveSpec's fairness every connect attempt resolves: its future
\* returns Ready with a stream or an error, and a handshake it started has
\* reached Done or Failed.
C19_AttemptResolves ==
    Unresolved ~>
        (/\ fut = "resolved" /\ result.res \in {"Ok", "Err"}
         /\ hsStarted = 1 => HsState \in {"Done", "Failed"})

C19_Witness ==
    /\ fut = "resolved" /\ result = Ok("Https") /\ HsState = "Done"
    /\ PendingCount = MaxPend /\ wake = "none"

\* C21: with the polls of several streams interleaved on one thread, one of
\* them nested in another's transport, every transport poll an adapter makes
\* carries the waker of the poll then running for its stream, the relay holds
\* exactly that waker inside a poll and nothing between polls or during
\* tls.connect, and each stream's handshake ends as its own engine decides
\* after as many Pending as its own transport reported not-ready.
C21_InterleavingSafe ==
    /\ tp.polls = 1 => tp.used = tp.cur /\ tp.used \in Wakers
    /\ stack = <<>> => WAKER = NoWaker /\ saved = <<>>
    /\ stack # <<>> =>
          /\ Top.op = "connect" => WAKER = NoWaker
          /\ Top.op # "connect" => WAKER = Top.w /\ Len(saved) = Len(stack)
    /\ stack = <<>> => \A s \in Streams : st[s].pend = st[s].notready
    /\ \A s \in Streams :
          st[s].phase \in {"up", "failed"} <=> st[s].res = st[s].verdict

C21_Witness ==
    /\ Len(stack) = 2 /\ stack[1].s = "C" /\ stack[1].op = "handshake"
    /\ Top.s = "B" /\ tp = [s |-> "B", used |-> "w2", cur |-> "w2", polls |-> 1]
    /\ st["C"].notready = 1 /\ st["C"].pend = 1
    /\ st["A"].phase = "hs" /\ st["A"].pend = 1

====
